---- MODULE Spec2Model ----
(***************************************************************************)
(* A model of the dataset tooling of global-ev-infra-dataset:              *)
(*   scripts/validate_dataset.py  validate() and its helpers               *)
(*   scripts/write_checksums.py   write_checksums()                        *)
(*                                                                         *)
(* validate() is a single sequential run; it is cut into one action per    *)
(* statement group so that the order of the checks is observable.  A run   *)
(* ends in pc = "done" (normal return, exit status 0), pc = "exit"         *)
(* (SystemExit(1) raised by _fail) or pc = "crash" (an exception no code   *)
(* of the script catches: the interpreter prints a traceback and the exit  *)
(* status is 1).                                                           *)
(*                                                                         *)
(* Cells of a CSV column are records [k, v]: k is the kind of the cell as  *)
(* pandas loads it, v its value.                                           *)
(***************************************************************************)
EXTENDS Integers, Sequences, FiniteSets, TLC

VARIABLES
    strict,         \* --strict
    data_dir,       \* TRUE iff data_dir exists
    files,          \* directory listing: file name -> kind of the entry
    stations,       \* what pd.read_csv makes of the located stations file
    country,        \* what pd.read_csv makes of country_summary.csv
    stations_path,  \* result of _pick_existing for the stations file
    pc,             \* position of validate()
    out,            \* messages printed so far
    evaluated,      \* the checks run so far, in order
    root,           \* write_checksums: the entries under root
    include_patterns, \* write_checksums: --include
    written         \* write_checksums: what each run so far wrote

vars == <<strict, data_dir, files, stations, country, stations_path, pc, out,
          evaluated, root, include_patterns, written>>

valVars == <<strict, data_dir, files, stations, country, stations_path, pc, out,
             evaluated>>

ckVars == <<root, include_patterns, written>>

-----------------------------------------------------------------------------
(* Sequences *)

Min(a, b) == IF a < b THEN a ELSE b

Abs(n) == IF n < 0 THEN -n ELSE n

\* series.head(n)
HeadN(s, n) == SubSeq(s, 1, Min(n, Len(s)))

\* series[mask]: the elements at which the boolean mask is true, in order
RECURSIVE Pick(_, _, _)
Pick(s, mask, i) ==
    IF i > Len(s) THEN << >>
    ELSE (IF mask[i] THEN << s[i] >> ELSE << >>) \o Pick(s, mask, i + 1)

Mask(s, mask) == Pick(s, mask, 1)

Range(s) == { s[i] : i \in DOMAIN s }

\* the sequences over S of length at most n
SeqUpTo(S, n) == UNION { [1..k -> S] : k \in 0..n }

\* bad.head(5) in every helper
SampleSize == 5

-----------------------------------------------------------------------------
(* Cells *)

NullNum == [k |-> "null", v |-> 0]
Num(n) == [k |-> "num", v |-> n]       \* a number
NumStr(n) == [k |-> "numstr", v |-> n] \* text that spells the number n
Text(n) == [k |-> "text", v |-> n]     \* text that spells no number

NullStr == [k |-> "null", v |-> << >>]
Str(chars) == [k |-> "str", v |-> chars]

\* series.dropna()
DropNa(s) == SelectSeq(s, LAMBDA c : c.k # "null")

\* pd.to_numeric(series, errors="coerce"), one cell: NaN for a null and for
\* text that spells no number
ToNumeric(c) ==
    IF c.k \in {"num", "numstr"} THEN [nan |-> FALSE, v |-> c.v]
    ELSE [nan |-> TRUE, v |-> 0]

ToNumericSeries(s) == [i \in DOMAIN s |-> ToNumeric(s[i])]

-----------------------------------------------------------------------------
(* _fail, _warn *)

Message(name, kind, count, sample) ==
    [glyph |-> "none", name |-> name, kind |-> kind, count |-> count,
     sample |-> sample]

\* a helper that printed nothing and returned
Continue(o) == [out |-> o, halt |-> "no"]

\* an exception nothing catches
Crash(o) == [out |-> o, halt |-> "crash"]

Fail(o, msg) ==
    [out |-> Append(o, [msg EXCEPT !.glyph = "fail"]), halt |-> "exit"]

Warn(o, msg, isStrict) ==
    IF isStrict THEN Fail(o, msg)
    ELSE [out |-> Append(o, [msg EXCEPT !.glyph = "warn"]), halt |-> "no"]

-----------------------------------------------------------------------------
(* _pick_existing, _read_csv, _require_cols *)

StationCandidates ==
    << "charging_stations_world.csv", "charging_station.csv",
       "charging_stations.csv" >>

SummaryCandidates == << "country_summary.csv" >>

FileNames == Range(StationCandidates) \cup Range(SummaryCandidates)

\* "absent"; "dir" a directory; "csv" a regular file pandas parses; "bad" a
\* regular file pandas raises on
EntryKinds == {"absent", "dir", "csv", "bad"}

\* Path.exists()
Exists(listing, name) == listing[name] # "absent"

NoPath == "None"

RECURSIVE PickFrom(_, _, _)
PickFrom(listing, candidates, i) ==
    IF i > Len(candidates) THEN NoPath
    ELSE IF Exists(listing, candidates[i]) THEN candidates[i]
    ELSE PickFrom(listing, candidates, i + 1)

PickExisting(listing, candidates) == PickFrom(listing, candidates, 1)

\* pd.read_csv succeeds
Readable(listing, path) == listing[path] = "csv"

ReadCsv(o, listing, path) ==
    IF Readable(listing, path) THEN Continue(o)
    ELSE Fail(o, Message(path, "read", 0, << >>))

Required ==
    << "id", "name", "city", "country_code", "state_province", "latitude",
       "longitude", "ports", "power_kw", "power_class", "is_fast_dc" >>

MissingCols(columns, required) ==
    SelectSeq(required, LAMBDA c : c \notin columns)

\* the report of missing columns routed through _warn
RequireColsWarn(o, columns, required, table) ==
    LET missing == MissingCols(columns, required)
    IN  IF Len(missing) > 0
        THEN Warn(o, Message(table, "missing_columns", Len(missing), missing),
                  strict)
        ELSE Continue(o)

RequireCols(o, columns, required, table) ==
    LET missing == MissingCols(columns, required)
    IN  IF Len(missing) > 0
        THEN Fail(o, Message(table, "missing_columns", Len(missing), missing))
        ELSE Continue(o)

-----------------------------------------------------------------------------
(* The rules *)

\* series.duplicated(keep=False): every occurrence of a repeated value
DuplicatedKeepFalse(s, i) == \E j \in DOMAIN s \ {i} : s[j] = s[i]

\* series.duplicated(): a later occurrence of an earlier value
Duplicated(s, i) == \E j \in 1..(i - 1) : s[j] = s[i]

AssertUnique(o, series, name, isStrict) ==
    LET s == DropNa(series)
        dups == Mask(s, [i \in DOMAIN s |-> Duplicated(s, i)])
    IN  IF Len(dups) > 0
        THEN Warn(o, Message(name, "duplicate", Len(dups),
                             HeadN(dups, SampleSize)), isStrict)
        ELSE Continue(o)

UpperCase == {"U", "S", "D", "E", "F", "R"}

\* s.str.match(r"^[A-Z]{2}$")
MatchesCountryCode(chars) ==
    /\ Len(chars) = 2
    /\ \A i \in 1..2 : chars[i] \in UpperCase

AssertRegex(o, series, name, isStrict) ==
    LET s == DropNa(series)
        bad == Mask(s, [i \in DOMAIN s |-> ~MatchesCountryCode(s[i].v)])
    IN  IF Len(bad) > 0
        THEN Warn(o, Message(name, "regex", Len(bad), HeadN(bad, SampleSize)),
                  isStrict)
        ELSE Continue(o)

\* the bounds themselves rejected
OutOfRangeExclusive(x, lo, hi) == (x.v <= lo) \/ (x.v >= hi)

OutOfRange(x, lo, hi) == (x.v < lo) \/ (x.v > hi)

AssertRange(o, series, lo, hi, name, isStrict) ==
    LET s == SelectSeq(ToNumericSeries(series), LAMBDA x : ~x.nan)
        bad == Mask(s, [i \in DOMAIN s |-> OutOfRange(s[i], lo, hi)])
        vals == [i \in DOMAIN bad |-> bad[i].v]
    IN  IF Len(bad) > 0
        THEN Warn(o, Message(name, "range", Len(bad), HeadN(vals, SampleSize)),
                  isStrict)
        ELSE Continue(o)

AssertNonneg(o, series, name, isStrict) ==
    LET s == ToNumericSeries(series)
        bad == Mask(s, [i \in DOMAIN s |-> ~s[i].nan /\ s[i].v < 0])
        vals == [i \in DOMAIN bad |-> bad[i].v]
    IN  IF Len(bad) > 0
        THEN Warn(o, Message(name, "negative", Len(bad),
                             HeadN(vals, SampleSize)), isStrict)
        ELSE Continue(o)

LatLo == -90
LatHi == 90
LonLo == -180
LonHi == 180

-----------------------------------------------------------------------------
(* power_class: stations["power_class"].astype(str).str.strip().str.lower() *)

\* a text value: the word it spells once trimmed and lowercased, whether it
\* carries surrounding whitespace, whether it carries uppercase letters
Word(base, pad, upper) == [base |-> base, pad |-> pad, upper |-> upper]

NullWord == [k |-> "null", v |-> Word("", FALSE, FALSE)]

\* astype(str): a null becomes the text "nan"
AsStr(c) == IF c.k = "null" THEN Str(Word("nan", FALSE, FALSE)) ELSE c

StrStrip(c) == [c EXCEPT !.v.pad = FALSE]

StrLower(c) == [c EXCEPT !.v.upper = FALSE]

NormalizePowerClass(c) == StrLower(StrStrip(AsStr(c)))

Allowed == {"slow", "fast", "hpc"}

\* pc.isin(allowed): equality with one of the three literals
IsIn(c) == c.v.base \in Allowed /\ ~c.v.pad /\ ~c.v.upper

CheckPowerClassColumn(o, series, name, isStrict) ==
    LET pcs == [i \in DOMAIN series |-> NormalizePowerClass(series[i])]
        bad_pc == Mask(pcs, [i \in DOMAIN pcs |-> ~IsIn(pcs[i])])
    IN  IF Len(bad_pc) > 0
        THEN Warn(o, Message(name, "not_in", Len(bad_pc),
                             HeadN(bad_pc, SampleSize)), isStrict)
        ELSE Continue(o)

-----------------------------------------------------------------------------
(* country_summary.csv *)

\* a count cell that is a number with a fractional part: n + 1/2, n >= 0
Frac(n) == [k |-> "frac", v |-> n]

NoColumn == "None"

CountColumn(columns) ==
    IF "stations" \in columns THEN "stations"
    ELSE IF "count" \in columns THEN "count"
    ELSE NoColumn

\* stations.groupby("country_code")["id"].size(): the groups are the non-null
\* keys, the size of a group its number of rows
GroupSizes(cc) ==
    [g \in Range(DropNa(cc)) |-> Cardinality({ i \in DOMAIN cc : cc[i] = g })]

\* how="outer": the groups no row of the summary names are added, with no
\* declared count
JoinOuter(rows, count_col, computed) ==
    [i \in DOMAIN rows |->
        [key |-> rows[i].country_code,
         declared |-> rows[i][count_col],
         computed |-> IF rows[i].country_code \in DOMAIN computed
                      THEN Num(computed[rows[i].country_code])
                      ELSE NullNum]]
    \o
    LET extra == { g \in DOMAIN computed :
                    \A i \in DOMAIN rows : rows[i].country_code # g }
        g0 == CHOOSE g \in extra : TRUE
    IN  IF extra = {} THEN << >>
        ELSE << [key |-> g0, declared |-> NullNum,
                 computed |-> Num(computed[g0])] >>

\* country.set_index("country_code")[[count_col]].join(computed, how="left"):
\* one row per row of the summary, NaN where the key is no group
JoinLeft(rows, count_col, computed) ==
    [i \in DOMAIN rows |->
        [key |-> rows[i].country_code,
         declared |-> rows[i][count_col],
         computed |-> IF rows[i].country_code \in DOMAIN computed
                      THEN Num(computed[rows[i].country_code])
                      ELSE NullNum]]

\* .fillna(0)
FillNa0(c) == IF c.k = "null" THEN Num(0) ELSE c

\* Series.astype(int) raises on a NaN and on text
CastsToInt(c) == c.k \in {"num", "frac"}

\* and truncates a fraction
AsInt(c) == c.v

Diff(m) == Abs(AsInt(m.declared) - AsInt(FillNa0(m.computed)))

\* bad.head(5).to_dict(orient="records"): bad is a Series, and Series.to_dict
\* takes no orient argument, so the call raises TypeError before the message
\* is built and _warn is reached
ReportDiffering(o, bad, isStrict) == Crash(o)

Merged(cc, table) ==
    JoinLeft(table.rows, CountColumn(table.columns), GroupSizes(cc))

CastFails(merged) == \E i \in DOMAIN merged : ~CastsToInt(merged[i].declared)

\* diff[diff > 0]
BadRows(merged) ==
    Mask(merged, [i \in DOMAIN merged |-> Diff(merged[i]) > 0])

Reconcile(o, cc, table, isStrict) ==
    IF CountColumn(table.columns) = NoColumn
    THEN Warn(o, Message("country_summary.csv", "count_column", 0, << >>),
              isStrict)
    ELSE IF CastFails(Merged(cc, table)) THEN Crash(o)
    ELSE IF Len(BadRows(Merged(cc, table))) > 0
    THEN ReportDiffering(o, BadRows(Merged(cc, table)), isStrict)
    ELSE Continue(o)

CountrySummary(o, listing, cc, table, isStrict) ==
    LET country_path == PickExisting(listing, SummaryCandidates)
    IN  IF country_path = NoPath THEN Continue(o)
        ELSE IF ReadCsv(o, listing, country_path).halt # "no"
        THEN ReadCsv(o, listing, country_path)
        ELSE IF "country_code" \in table.columns
        THEN Reconcile(o, cc, table, isStrict)
        ELSE Continue(o)

-----------------------------------------------------------------------------
(* validate() *)

Checks ==
    << "id", "country_code", "latitude", "longitude", "ports", "power_kw",
       "power_class", "country_summary" >>

\* the outcome r of a statement group: print, then go on or stop
Step(r, next) ==
    /\ out' = r.out
    /\ pc' = IF r.halt = "no" THEN next ELSE r.halt

CheckDataDir ==
    /\ pc = "data_dir"
    /\ Step(IF data_dir THEN Continue(out)
            ELSE Fail(out, Message("data_dir", "data_dir", 0, << >>)),
            "locate")
    /\ UNCHANGED <<strict, data_dir, files, stations, country, stations_path,
                   evaluated, ckVars>>

LocateStations ==
    /\ pc = "locate"
    /\ stations_path' = PickExisting(files, StationCandidates)
    /\ Step(IF stations_path' = NoPath
            THEN Fail(out, Message("stations", "not_found",
                                   Len(StationCandidates), StationCandidates))
            ELSE Continue(out),
            "read")
    /\ UNCHANGED <<strict, data_dir, files, stations, country, evaluated,
                   ckVars>>

ReadStations ==
    /\ pc = "read"
    /\ Step(ReadCsv(out, files, stations_path), "require_cols")
    /\ UNCHANGED <<strict, data_dir, files, stations, country, stations_path,
                   evaluated, ckVars>>

CheckRequiredCols ==
    /\ pc = "require_cols"
    /\ Step(RequireCols(out, stations.columns, Required, stations_path), "id")
    /\ UNCHANGED <<strict, data_dir, files, stations, country, stations_path,
                   evaluated, ckVars>>

\* one data-quality check: r is what its helper does
Check(name, r, next) ==
    /\ pc = name
    /\ evaluated' = Append(evaluated, name)
    /\ Step(r, next)
    /\ UNCHANGED <<strict, data_dir, files, stations, country, stations_path,
                   ckVars>>

CheckId ==
    Check("id", AssertUnique(out, stations.data.id, "id", strict),
          "country_code")

CheckCountryCode ==
    Check("country_code",
          AssertRegex(out, stations.data.country_code, "country_code", strict),
          "latitude")

CheckLatitude ==
    Check("latitude",
          AssertRange(out, stations.data.latitude, LatLo, LatHi, "latitude",
                      strict),
          "longitude")

CheckLongitude ==
    Check("longitude",
          AssertRange(out, stations.data.longitude, LonLo, LonHi, "longitude",
                      strict),
          "ports")

CheckPorts ==
    Check("ports", AssertNonneg(out, stations.data.ports, "ports", strict),
          "power_kw")

CheckPowerKw ==
    Check("power_kw",
          AssertNonneg(out, stations.data.power_kw, "power_kw", strict),
          "power_class")

CheckPowerClass ==
    Check("power_class",
          CheckPowerClassColumn(out, stations.data.power_class, "power_class",
                                strict),
          "country_summary")

CheckCountrySummary ==
    Check("country_summary",
          CountrySummary(out, files, stations.data.country_code, country,
                         strict),
          "done")

Next ==
    \/ CheckDataDir
    \/ LocateStations
    \/ ReadStations
    \/ CheckRequiredCols
    \/ CheckId
    \/ CheckCountryCode
    \/ CheckLatitude
    \/ CheckLongitude
    \/ CheckPorts
    \/ CheckPowerKw
    \/ CheckPowerClass
    \/ CheckCountrySummary

-----------------------------------------------------------------------------
(* The datasets validate() is run on *)

US == Str(<< "U", "S" >>)
DE == Str(<< "D", "E" >>)
FR == Str(<< "F", "R" >>)
LowerUs == Str(<< "u", "s" >>)
USA == Str(<< "U", "S", "A" >>)

Fast == Str(Word("fast", FALSE, FALSE))
PaddedFast == Str(Word("fast", TRUE, TRUE))    \* " Fast "
Slow == Str(Word("slow", FALSE, FALSE))
Hpc == Str(Word("hpc", FALSE, TRUE))           \* "HPC"
Ultra == Str(Word("ultra", FALSE, FALSE))

\* three stations, a column at a time: one value no rule objects to, one
\* value its rule reports
CleanColumns ==
    [id |-> << Num(1), Num(2), Num(3) >>,
     country_code |-> << US, US, DE >>,
     latitude |-> << Num(LatLo), Num(0), Num(LatHi) >>,
     longitude |-> << Num(LonLo), NumStr(0), Num(LonHi) >>,
     ports |-> << Num(0), Num(2), NullNum >>,
     power_kw |-> << Num(0), Num(50), Text(1) >>,
     power_class |-> << Fast, PaddedFast, Hpc >>]

DirtyColumns ==
    [id |-> << Num(1), Num(1), Num(2) >>,
     country_code |-> << US, LowerUs, USA >>,
     latitude |-> << Num(LatHi + 1), Num(0), Num(0) >>,
     longitude |-> << Num(0), Num(LonLo - 1), Num(0) >>,
     ports |-> << Num(-1), Num(2), Num(2) >>,
     power_kw |-> << Num(50), Num(-7), Num(-7) >>,
     power_class |-> << Fast, Ultra, Slow >>]

DataCols == DOMAIN CleanColumns

\* every way to take each column from the clean or from the dirty table
MixedData ==
    { [c \in DataCols |-> IF c \in D THEN DirtyColumns[c] ELSE CleanColumns[c]] :
        D \in SUBSET DataCols }

Table(columns, data) == [columns |-> columns, data |-> data]

AllColumns == Range(Required)

SummaryRow(columns, key, n, m) ==
    [country_code |-> IF "country_code" \in columns THEN key ELSE NullStr,
     stations |-> IF "stations" \in columns THEN n ELSE NullNum,
     count |-> IF "count" \in columns THEN m ELSE NullNum]

SummaryColumnSets ==
    { {"country_code", "stations"}, {"country_code", "count"},
      {"country_code", "stations", "count"}, {"country_code"}, {"stations"} }

\* the summary of << US, US, DE >>; one with US overstated; one with a key
\* no station has; one with an empty count cell
SummaryRowSets(columns) ==
    { << SummaryRow(columns, US, Num(2), Num(2)),
         SummaryRow(columns, DE, Num(1), Num(1)) >>,
      << SummaryRow(columns, US, Num(3), Num(3)),
         SummaryRow(columns, DE, Num(1), Num(1)) >>,
      << SummaryRow(columns, US, Num(2), Num(2)),
         SummaryRow(columns, DE, Num(1), Num(1)),
         SummaryRow(columns, FR, Num(0), Num(0)) >>,
      << SummaryRow(columns, US, NullNum, NullNum),
         SummaryRow(columns, DE, Num(1), Num(1)) >> }

SummaryTables ==
    { [columns |-> C, rows |-> R] : C \in SummaryColumnSets, R \in {<< >>} } \cup
    UNION { { [columns |-> C, rows |-> R] : R \in SummaryRowSets(C) } :
              C \in SummaryColumnSets }

NoTable == [columns |-> {}, rows |-> << >>]

OnlyWorldFile ==
    [n \in FileNames |->
        IF n = "charging_stations_world.csv" THEN "csv" ELSE "absent"]

\* write_checksums is not running
CkIdle ==
    /\ root = << >>
    /\ include_patterns = << >>
    /\ written = << >>

Begin(at) ==
    /\ pc = at
    /\ out = << >>
    /\ evaluated = << >>
    /\ CkIdle

\* the rules and the summary vary, the files are in place
InitData ==
    /\ strict \in BOOLEAN
    /\ data_dir = TRUE
    /\ \E kind \in EntryKinds :
        /\ files = [OnlyWorldFile EXCEPT !["country_summary.csv"] = kind]
        /\ country \in (IF kind = "csv" THEN SummaryTables ELSE {NoTable})
    /\ stations \in { Table(AllColumns, d) : d \in MixedData }
    /\ stations_path = NoPath
    /\ Begin("data_dir")

\* the header varies
InitSchema ==
    /\ strict \in BOOLEAN
    /\ data_dir = TRUE
    /\ files = OnlyWorldFile
    /\ country = NoTable
    /\ stations \in { Table(AllColumns \ missing, d) :
                        missing \in SUBSET AllColumns,
                        d \in {CleanColumns, DirtyColumns} }
    /\ stations_path = NoPath
    /\ Begin("data_dir")

\* the directory varies
InitLocate ==
    /\ strict \in BOOLEAN
    /\ data_dir \in BOOLEAN
    /\ files \in [FileNames -> EntryKinds]
    /\ country = NoTable
    /\ stations \in { Table(AllColumns, d) : d \in {CleanColumns, DirtyColumns} }
    /\ stations_path = NoPath
    /\ Begin("data_dir")

Init == InitData \/ InitSchema \/ InitLocate

Spec == Init /\ [][Next]_vars

-----------------------------------------------------------------------------
(* What a run is expected to do *)

Terminated == pc \in {"done", "exit", "crash"}

\* the stations file was found, parsed, and has every required column
StructuralOk ==
    /\ data_dir
    /\ stations_path # NoPath
    /\ Readable(files, stations_path)
    /\ MissingCols(stations.columns, Required) = << >>

\* what the helper of a column check does on this dataset when nothing stops it
RuleOutcome(c) ==
    CASE c = "id" -> AssertUnique(<< >>, stations.data.id, c, FALSE)
      [] c = "country_code" ->
            AssertRegex(<< >>, stations.data.country_code, c, FALSE)
      [] c = "latitude" ->
            AssertRange(<< >>, stations.data.latitude, LatLo, LatHi, c, FALSE)
      [] c = "longitude" ->
            AssertRange(<< >>, stations.data.longitude, LonLo, LonHi, c, FALSE)
      [] c = "ports" -> AssertNonneg(<< >>, stations.data.ports, c, FALSE)
      [] c = "power_kw" -> AssertNonneg(<< >>, stations.data.power_kw, c, FALSE)
      [] c = "power_class" ->
            CheckPowerClassColumn(<< >>, stations.data.power_class, c, FALSE)

SummaryLoaded ==
    /\ files["country_summary.csv"] = "csv"
    /\ "country_code" \in country.columns

\* the summary names no count column, or a declared count differs
SummaryDetects ==
    /\ SummaryLoaded
    /\ \/ CountColumn(country.columns) = NoColumn
       \/ /\ ~CastFails(Merged(stations.data.country_code, country))
          /\ Len(BadRows(Merged(stations.data.country_code, country))) > 0

Detects(c) ==
    IF c = "country_summary" THEN SummaryDetects
    ELSE RuleOutcome(c).out # << >>

MsgName(c) == IF c = "country_summary" THEN "country_summary.csv" ELSE c

FirstDetecting ==
    CHOOSE i \in DOMAIN Checks :
        Detects(Checks[i]) /\ \A j \in 1..(i - 1) : ~Detects(Checks[j])

\* C1: in strict mode a run on a structurally sound dataset stops at the first
\* check, in declared order, that detects a violation: it exits non-zero, its
\* only output is that check's failure message, and no later check has run.
C1_StrictStopsAtFirstViolation ==
    (strict /\ StructuralOk /\ Terminated
        /\ \E i \in DOMAIN Checks : Detects(Checks[i]))
    => /\ pc = "exit"
       /\ Len(out) = 1
       /\ out[1].glyph = "fail"
       /\ out[1].name = MsgName(Checks[FirstDetecting])
       /\ evaluated = SubSeq(Checks, 1, FirstDetecting)

\* the summary is absent, or parses and has counts that are numbers
SummaryUsable ==
    /\ files["country_summary.csv"] \in {"absent", "csv"}
    /\ (SummaryLoaded /\ CountColumn(country.columns) # NoColumn)
        => ~CastFails(Merged(stations.data.country_code, country))

DetectingChecks == SelectSeq(Checks, Detects)

\* C2: in advisory mode a run on a structurally sound dataset evaluates every
\* check, prints one warning per detecting check, in order, and returns
\* normally (exit status 0), however many checks, the reconciliation
\* included, detect a violation.
C2_AdvisoryRunsEveryCheck ==
    (~strict /\ StructuralOk /\ SummaryUsable /\ Terminated)
    => /\ pc = "done"
       /\ evaluated = Checks
       /\ Len(out) = Len(DetectingChecks)
       /\ \A i \in DOMAIN out :
            out[i].glyph = "warn" /\ out[i].name = MsgName(DetectingChecks[i])

PastRequiredCols == pc \notin {"data_dir", "locate", "read", "require_cols"}

StationsLoaded ==
    /\ data_dir
    /\ stations_path # NoPath
    /\ Readable(files, stations_path)

\* C3: in both modes, a loaded stations table that lacks a required column
\* ends the run at the required-columns check: exit non-zero, with one
\* failure message that lists exactly the missing columns, before any rule or
\* the reconciliation has run and with no warning printed.
C3_MissingColumnsAbort ==
    (StationsLoaded /\ PastRequiredCols
        /\ AllColumns \ stations.columns # {})
    => /\ pc = "exit"
       /\ Len(out) = 1
       /\ out[1].glyph = "fail"
       /\ out[1].kind = "missing_columns"
       /\ Range(out[1].sample) = AllColumns \ stations.columns
       /\ Len(out[1].sample) = Cardinality(AllColumns \ stations.columns)
       /\ evaluated = << >>

\* advisory mode, two columns missing, and data every rule would report
C3_Witness ==
    /\ ~strict
    /\ pc = "exit"
    /\ stations.data = DirtyColumns
    /\ Cardinality(AllColumns \ stations.columns) = 2
    /\ "id" \notin stations.columns
    /\ Len(out) = 1

\* Path.is_file()
IsFile(listing, name) == listing[name] \in {"csv", "bad"}

RECURSIVE FirstFileFrom(_, _, _)
FirstFileFrom(listing, candidates, i) ==
    IF i > Len(candidates) THEN NoPath
    ELSE IF IsFile(listing, candidates[i]) THEN candidates[i]
    ELSE FirstFileFrom(listing, candidates, i + 1)

\* C4: the locator returns the first candidate, in list order, that exists as
\* a file; when there is none the run fails, in both modes, with a message
\* naming every candidate; a missing country_summary.csv is no error and
\* prints nothing.
C4_LocatorPicksFirstFile ==
    (data_dir /\ pc \notin {"data_dir", "locate"})
    => /\ stations_path = FirstFileFrom(files, StationCandidates, 1)
       /\ (FirstFileFrom(files, StationCandidates, 1) = NoPath)
            => /\ pc = "exit"
               /\ Len(out) = 1
               /\ out[1].glyph = "fail"
               /\ out[1].kind = "not_found"
               /\ out[1].sample = StationCandidates
       /\ (files["country_summary.csv"] = "absent" /\ pc = "crash") => FALSE
       /\ (files["country_summary.csv"] = "absent")
            => \A i \in DOMAIN out : out[i].name # "country_summary.csv"

-----------------------------------------------------------------------------
(* One check at a time, on every column up to a length *)

\* n rows no rule objects to
Filler(n) ==
    [id |-> [i \in 1..n |-> Num(i)],
     country_code |-> [i \in 1..n |-> US],
     latitude |-> [i \in 1..n |-> Num(0)],
     longitude |-> [i \in 1..n |-> Num(0)],
     ports |-> [i \in 1..n |-> Num(1)],
     power_kw |-> [i \in 1..n |-> Num(50)],
     power_class |-> [i \in 1..n |-> Fast]]

\* validate() has loaded the stations table and stands before the check `at`
Loaded(at) ==
    /\ strict \in BOOLEAN
    /\ data_dir = TRUE
    /\ stations_path = "charging_stations_world.csv"
    /\ Begin(at)

NoSummary ==
    /\ files = OnlyWorldFile
    /\ country = NoTable

MaxIdRows == 8

\* no id, and two ids
IdCells == {NullNum, Num(1), Num(2)}

InitUnique ==
    /\ Loaded("id")
    /\ NoSummary
    /\ stations \in
        { Table(AllColumns, [Filler(Len(col)) EXCEPT !.id = col]) :
            col \in SeqUpTo(IdCells, MaxIdRows) }

SpecUnique == InitUnique /\ [][CheckId]_vars

MaxRangeRows == 3

\* for a range [lo, hi]: a null, text that spells no number, the value below
\* lo, lo, a value inside, hi as a number and as text, the value above hi as a
\* number and as text
RangeCells(lo, hi) ==
    << NullNum, Text(1), Num(lo - 1), Num(lo), Num(0), Num(hi), NumStr(hi),
       Num(hi + 1), NumStr(hi + 1) >>

\* the latitudes vary, or the longitudes, or both in step
InitRange ==
    /\ Loaded("latitude")
    /\ NoSummary
    /\ \E n \in 0..MaxRangeRows, which \in {"latitude", "longitude", "both"} :
        stations \in
            { Table(AllColumns,
                    [Filler(n) EXCEPT
                        !.latitude =
                            IF which = "longitude" THEN @
                            ELSE [i \in 1..n |-> RangeCells(LatLo, LatHi)[p[i]]],
                        !.longitude =
                            IF which = "latitude" THEN @
                            ELSE [i \in 1..n |-> RangeCells(LonLo, LonHi)[p[i]]]]) :
                p \in [1..n -> DOMAIN RangeCells(0, 0)] }

NextRange == CheckLatitude \/ CheckLongitude

SpecRange == InitRange /\ [][NextRange]_vars

MaxPowerClassRows == 3

PowerClassCells == {NullWord, Fast, PaddedFast, Ultra}

InitPowerClass ==
    /\ Loaded("power_class")
    /\ NoSummary
    /\ stations \in
        { Table(AllColumns, [Filler(Len(col)) EXCEPT !.power_class = col]) :
            col \in SeqUpTo(PowerClassCells, MaxPowerClassRows) }

SpecPowerClass == InitPowerClass /\ [][CheckPowerClass]_vars

MaxStationRows == 2
MaxSummaryRows == 2

\* the count cells of a summary
CountCells == {Num(0), Num(1), Num(2), Frac(1), NullNum}

ReconcileSummaries ==
    UNION {
        { [columns |-> C, rows |-> R] :
            R \in SeqUpTo({ SummaryRow(C, key, n, Num(0)) :
                              key \in {US, FR}, n \in CountCells },
                          MaxSummaryRows) } :
        C \in { {"country_code", "stations"},
                {"country_code", "stations", "count"}, {"stations"} } }
    \cup
    UNION {
        { [columns |-> C, rows |-> R] :
            R \in SeqUpTo({ SummaryRow(C, key, NullNum, m) :
                              key \in {US, FR}, m \in CountCells },
                          MaxSummaryRows) } :
        C \in { {"country_code", "count"}, {"country_code"} } }

InitReconcile ==
    /\ Loaded("country_summary")
    /\ files = [OnlyWorldFile EXCEPT !["country_summary.csv"] = "csv"]
    /\ country \in ReconcileSummaries
    /\ stations \in
        { Table(AllColumns, [Filler(Len(col)) EXCEPT !.country_code = col]) :
            col \in SeqUpTo({US, DE, NullStr}, MaxStationRows) }

SpecReconcile == InitReconcile /\ [][CheckCountrySummary]_vars

-----------------------------------------------------------------------------
(* What the checks are expected to report *)

Ran(c) == c \in Range(evaluated)

CountIn(s, x) == Cardinality({ i \in DOMAIN s : s[i] = x })

NonNullRows(col) == { i \in DOMAIN col : col[i].k # "null" }

\* the occurrences of non-null values beyond the first of each value
ExtraOccurrences(col) ==
    Cardinality(NonNullRows(col))
        - Cardinality({ col[i] : i \in NonNullRows(col) })

\* C6: Uniqueness(id) reports nothing when the non-null ids are distinct, and
\* otherwise one violation whose count is the number of occurrences beyond the
\* first of each value and whose sample holds at most 5 values, later
\* occurrences only; nulls never contribute.
C6_UniquenessReport ==
    Ran("id") =>
        IF ExtraOccurrences(stations.data.id) = 0
        THEN out = << >> /\ pc = "country_code"
        ELSE /\ Len(out) = 1
             /\ out[1].kind = "duplicate"
             /\ out[1].glyph = (IF strict THEN "fail" ELSE "warn")
             /\ pc = (IF strict THEN "exit" ELSE "country_code")
             /\ out[1].count = ExtraOccurrences(stations.data.id)
             /\ Len(out[1].sample)
                    = Min(SampleSize, ExtraOccurrences(stations.data.id))
             /\ \A k \in DOMAIN out[1].sample :
                    /\ out[1].sample[k].k # "null"
                    /\ CountIn(out[1].sample, out[1].sample[k])
                        <= CountIn(stations.data.id, out[1].sample[k]) - 1

\* more later occurrences than the sample holds, and a null id among the rows
C6_Witness ==
    /\ Ran("id")
    /\ Len(out) = 1
    /\ out[1].count > SampleSize
    /\ Len(out[1].sample) = SampleSize
    /\ \E i \in DOMAIN stations.data.id : stations.data.id[i].k = "null"

\* C7: SetMembership(power_class) reports a violation iff some non-null value,
\* trimmed and lowercased, is outside {slow, fast, hpc}; null values are
\* ignored.
C7_PowerClassIgnoresNulls ==
    Ran("power_class") =>
        ((\E i \in DOMAIN out : out[i].name = "power_class")
            <=> \E i \in NonNullRows(stations.data.power_class) :
                    stations.data.power_class[i].v.base \notin Allowed)

\* a cell that holds a number, as a number or as text, outside [lo, hi]
Offending(c, lo, hi) ==
    c.k \in {"num", "numstr"} /\ (c.v < lo \/ c.v > hi)

NumOffending(col, lo, hi) ==
    Cardinality({ i \in DOMAIN col : Offending(col[i], lo, hi) })

Reports(name) == SelectSeq(out, LAMBDA m : m.name = name)

RangeRule(name, col, lo, hi) ==
    Ran(name) =>
        IF NumOffending(col, lo, hi) > 0
        THEN /\ Len(Reports(name)) = 1
             /\ Reports(name)[1].kind = "range"
             /\ Reports(name)[1].count = NumOffending(col, lo, hi)
        ELSE Reports(name) = << >>

\* C8: NumericRange on latitude [-90, 90] and longitude [-180, 180] counts a
\* value iff it coerces to a number below lo or above hi (lo and hi pass);
\* nulls and text that is no number are never counted; the rule reports one
\* violation carrying that count when it is positive, and none otherwise.
C8_NumericRange ==
    /\ RangeRule("latitude", stations.data.latitude, LatLo, LatHi)
    /\ RangeRule("longitude", stations.data.longitude, LonLo, LonHi)

\* a latitude on the bound, one above it given as text, and text that is no
\* number: one report, of one value
C8_Witness ==
    /\ Ran("latitude")
    /\ Num(LatHi) \in Range(stations.data.latitude)
    /\ NumStr(LatHi + 1) \in Range(stations.data.latitude)
    /\ Text(1) \in Range(stations.data.latitude)
    /\ Len(Reports("latitude")) = 1
    /\ Reports("latitude")[1].count = 1

\* the number of stations rows with this country_code
StationRowsWith(key) ==
    Cardinality({ j \in NonNullRows(stations.data.country_code) :
                    stations.data.country_code[j] = key })

DeclaredCell(i) == country.rows[i][CountColumn(country.columns)]

\* the declared count of row i of the summary is an integer, and the number of
\* stations rows with the row's key
RowMatches(i) ==
    /\ DeclaredCell(i).k = "num"
    /\ DeclaredCell(i).v = StationRowsWith(country.rows[i].country_code)

Reconciled ==
    /\ Ran("country_summary")
    /\ SummaryLoaded
    /\ CountColumn(country.columns) # NoColumn

\* C5: with a country_code and a count column, a violation goes to the
\* severity policy iff some summary key has a declared count that differs
\* from the number of stations rows with that key (0 when there is none), and
\* it carries the number of such keys: a warning and the run goes on in
\* advisory mode, a failure in strict mode.
C5_ReconcilerReportsMismatches ==
    (Reconciled /\ \A i \in DOMAIN country.rows : DeclaredCell(i).k = "num")
    => LET keys == { country.rows[i].country_code :
                        i \in { j \in DOMAIN country.rows : ~RowMatches(j) } }
       IN  IF keys = {} THEN pc = "done" /\ out = << >>
           ELSE /\ Len(out) = 1
                /\ out[1].name = "country_summary.csv"
                /\ out[1].count = Cardinality(keys)
                /\ out[1].glyph = (IF strict THEN "fail" ELSE "warn")
                /\ pc = (IF strict THEN "exit" ELSE "done")

\* C10: only the keys of the summary are compared.  When every row of the
\* summary matches, the block prints nothing and the run ends normally, in
\* both modes, whatever country codes the stations table holds beside them;
\* and a summary without a country_code column is skipped with no output.
C10_OneDirectional ==
    Ran("country_summary") =>
        /\ (files["country_summary.csv"] = "csv"
                /\ "country_code" \notin country.columns)
            => (pc = "done" /\ out = << >>)
        /\ (Reconciled /\ \A i \in DOMAIN country.rows : RowMatches(i))
            => (pc = "done" /\ out = << >>)

\* strict mode, stations in DE, a summary that lists US alone, and correctly
C10_Witness ==
    /\ strict
    /\ Reconciled
    /\ pc = "done"
    /\ DE \in Range(stations.data.country_code)
    /\ US \in Range(stations.data.country_code)
    /\ country.rows # << >>
    /\ \A i \in DOMAIN country.rows :
        country.rows[i].country_code = US /\ RowMatches(i)

-----------------------------------------------------------------------------
(* write_checksums.py *)

\* the names under root are 1..MaxPaths, in the order sorted() gives paths;
\* out_file is none of them (no include pattern matches it, as with the
\* default --out and --include), so a run leaves the matched files unchanged
MaxPaths == 3
MaxPatterns == 2
MaxRuns == 2

Paths == 1..MaxPaths

\* an entry under root: nothing, a directory, a regular file with its
\* content, or a symbolic link to a later name (target) or to a regular file
\* outside root (target 0)
Absent == [kind |-> "absent", content |-> "", target |-> 0]
Dir == [kind |-> "dir", content |-> "", target |-> 0]
File(c) == [kind |-> "file", content |-> c, target |-> 0]
Link(t) == [kind |-> "link", content |-> "", target |-> t]

Entries(p) ==
    {Absent, Dir, File("a"), File("b"), Link(0)}
        \cup (IF p < MaxPaths THEN {Link(p + 1)} ELSE {})

\* the glob patterns, by the names they match
Patterns == {"all", "one", "low", "high"}

Matches(pat, p) ==
    CASE pat = "all" -> TRUE
      [] pat = "one" -> p = 1
      [] pat = "low" -> p <= 2
      [] pat = "high" -> p >= 2

\* the elements of a set of names in ascending order
RECURSIVE Sorted(_)
Sorted(S) ==
    IF S = {} THEN << >>
    ELSE LET m == CHOOSE x \in S : \A y \in S : x <= y
         IN  << m >> \o Sorted(S \ {m})

Reverse(s) == [i \in DOMAIN s |-> s[Len(s) + 1 - i]]

\* root.glob(pat): the entries that exist and match, in the order the
\* directory lists them, which the file system chooses
Glob(fs, pat, ascending) ==
    LET hits == Sorted({ p \in DOMAIN fs :
                            fs[p].kind # "absent" /\ Matches(pat, p) })
    IN  IF ascending THEN hits ELSE Reverse(hits)

RECURSIVE GlobAll(_, _, _, _)
GlobAll(fs, patterns, ascending, i) ==
    IF i > Len(patterns) THEN << >>
    ELSE Glob(fs, patterns[i], ascending)
            \o GlobAll(fs, patterns, ascending, i + 1)

\* Path.resolve(): follow the links; 0 is a path outside root
RECURSIVE Resolve(_, _)
Resolve(fs, p) ==
    IF p = 0 THEN 0
    ELSE IF fs[p].kind = "link" THEN Resolve(fs, fs[p].target)
    ELSE p

\* Path.is_file(): a regular file, or a link that leads to one
PathIsFile(fs, p) ==
    \/ Resolve(fs, p) = 0
    \/ fs[Resolve(fs, p)].kind = "file"

\* the resolved files in the order they were first found
RECURSIVE FirstFound(_, _, _)
FirstFound(fs, paths, i) ==
    IF i > Len(paths) THEN << >>
    ELSE LET rest == FirstFound(fs, paths, i + 1)
             q == Resolve(fs, paths[i])
         IN  IF PathIsFile(fs, paths[i])
                /\ \A j \in 1..(i - 1) :
                     ~(PathIsFile(fs, paths[j]) /\ Resolve(fs, paths[j]) = q)
             THEN << q >> \o rest
             ELSE rest

UniqUnsorted(fs, paths) == FirstFound(fs, paths, 1)

\* sorted({p.resolve() for p in paths if p.is_file()})
Uniq(fs, paths) ==
    Sorted({ Resolve(fs, paths[i]) :
                i \in { j \in DOMAIN paths : PathIsFile(fs, paths[j]) } })

Sha256File(fs, p) == << "sha256", fs[p].content >>

\* f"{sha256_file(p)}  {rel.as_posix()}"
Line(fs, p) == [digest |-> Sha256File(fs, p), path |-> p]

\* the text written to out_file; p.relative_to(root) raises ValueError on a
\* path outside root, and then nothing is written
WriteChecksumsResult(fs, patterns, ascending) ==
    LET uniq == Uniq(fs, GlobAll(fs, patterns, ascending, 1))
    IN  IF \E i \in DOMAIN uniq : uniq[i] = 0
        THEN [status |-> "ValueError", lines |-> << >>]
        ELSE [status |-> "written",
              lines |-> [i \in DOMAIN uniq |-> Line(fs, uniq[i])]]

Reorderings(s) ==
    { [i \in DOMAIN s |-> s[f[i]]] : f \in Permutations(DOMAIN s) }

\* one run over the same files, with the patterns in any order
WriteChecksums ==
    /\ Len(written) < MaxRuns
    /\ \E patterns \in Reorderings(include_patterns), ascending \in BOOLEAN :
        written' = Append(written,
                          WriteChecksumsResult(root, patterns, ascending))
    /\ UNCHANGED <<root, include_patterns, valVars>>

InitChecksums ==
    /\ root \in { fs \in [Paths -> UNION { Entries(p) : p \in Paths }] :
                    \A p \in Paths : fs[p] \in Entries(p) }
    /\ include_patterns \in SeqUpTo(Patterns, MaxPatterns)
    /\ written = << >>
    /\ strict = FALSE
    /\ data_dir = FALSE
    /\ files = OnlyWorldFile
    /\ stations = Table({}, Filler(0))
    /\ country = NoTable
    /\ stations_path = NoPath
    /\ pc = "idle"
    /\ out = << >>
    /\ evaluated = << >>

SpecChecksums == InitChecksums /\ [][WriteChecksums]_vars

\* the regular files under root that some pattern matches
MatchedFiles ==
    { p \in Paths :
        /\ root[p].kind = "file"
        /\ \E i \in DOMAIN include_patterns : Matches(include_patterns[i], p) }

\* C9: over an unchanged set of files every run writes the same text, whatever
\* the order of the include patterns; the text has one line per file,
\* '<digest>  <path>', in ascending path order, and each matched regular file
\* is on exactly one line even when several patterns match it.
C9_ChecksumsDeterministic ==
    /\ \A i, j \in DOMAIN written : written[i] = written[j]
    /\ \A r \in DOMAIN written :
        written[r].status = "written" =>
            LET lines == written[r].lines
            IN  /\ \A i, j \in DOMAIN lines :
                     i < j => lines[i].path < lines[j].path
                /\ \A p \in MatchedFiles :
                     Cardinality({ i \in DOMAIN lines : lines[i].path = p }) = 1
                /\ \A i \in DOMAIN lines :
                     /\ root[lines[i].path].kind = "file"
                     /\ lines[i].digest
                            = << "sha256", root[lines[i].path].content >>

\* two runs wrote two files, the first of which two distinct patterns match
C9_Witness ==
    /\ Len(written) = 2
    /\ written[2].status = "written"
    /\ Len(written[2].lines) >= 2
    /\ Len(include_patterns) = 2
    /\ include_patterns[1] # include_patterns[2]
    /\ written[2].lines[1].path \in MatchedFiles
    /\ \A i \in DOMAIN include_patterns :
        Matches(include_patterns[i], written[2].lines[1].path)

====
